---- MODULE Spec2Model ----
(***************************************************************************)
(* Model of desktop-app/src/shared/indicators.py: the Indicator frame that *)
(* prompts for a TradingView script URL, creates a headless browser,       *)
(* scrapes the pine name and publisher id, and appends a record to the     *)
(* indicators.json list file.                                              *)
(*                                                                         *)
(* A string the code inspects by prefix (the URL) is a sequence of         *)
(* segments; the list file is a sequence of JSON tokens, so that json.load *)
(* and json.dump are real conversions.                                     *)
(***************************************************************************)
EXTENDS Integers, Sequences, FiniteSets, TLC

VARIABLES pc, url, cb_driver, web_driver, session_id, pine_name, pine_id,
          new_entry, data, file, location, cookies, trace, timed_out,
          runs, L0, file_at_start, read_data, ext_writes, ext_since_read

vars == <<pc, url, cb_driver, web_driver, session_id, pine_name, pine_id,
          new_entry, data, file, location, cookies, trace, timed_out,
          runs, L0, file_at_start, read_data, ext_writes, ext_since_read>>

(* ----------------------------- bounds --------------------------------- *)
MaxRuns == 2
MaxInit == 1
MaxExt == 1

(* ------------------------- values and inputs --------------------------- *)
None == "<None>"
Unset == "<unset>"
NoneUrl == <<"<None>">>
UnsetUrl == <<"<unset>">>

SITE == "https://www.tradingview.com"
PREFIX == <<SITE, "/script">>
PUBLISHED_SCRIPTS == <<SITE, "/u/#published-scripts">>
BLANK == <<"about:blank">>

\* what the user can have typed when OK is pressed
EnteredTexts ==
    { <<>>,
      <<SITE>>,
      <<SITE, "/u", "/abc123">>,
      <<SITE, "/script">>,
      <<SITE, "/script", "/abc123">> }

\* element.text of the name element
NameTexts == {"", "RSI Pro"}
\* element.get_attribute("data-script-id-part"): None when the attribute is missing
IdAttributes == {None, "", "PUB;xyz"}
\* TradingviewLogin.read_saved_session_id()
SavedSessions == {None, "", "tok123"}

NoEntry == [name |-> "", url |-> <<>>, id |-> ""]
OldEntry == [name |-> "MACD", url |-> <<SITE, "/script", "/old1">>, id |-> "PUB;old"]
ExtEntry == [name |-> "EXT", url |-> <<SITE, "/script", "/ext1">>, id |-> "PUB;ext"]

RECURSIVE ListsUpTo(_)
ListsUpTo(n) ==
    IF n = 0 THEN { <<>> }
    ELSE ListsUpTo(n - 1) \cup
         { Append(l, OldEntry) : l \in { m \in ListsUpTo(n - 1) : Len(m) = n - 1 } }

(* ------------------------------ JSON ---------------------------------- *)
Tok(t) == [t |-> t, v |-> NoEntry]
Obj(e) == [t |-> "obj", v |-> e]
LB == Tok("[")
RB == Tok("]")
COMMA == Tok(",")
WS == Tok("ws")

RECURSIVE DumpItems(_, _)
DumpItems(obj, i) ==
    IF i > Len(obj) THEN <<>>
    ELSE (IF i > 1 THEN <<COMMA>> ELSE <<>>) \o <<WS, Obj(obj[i])>> \o DumpItems(obj, i + 1)

\* json.dump(obj, fp, indent=4): the text written for a list of records
json_dump(obj) ==
    IF obj = <<>> THEN <<LB, RB>>
    ELSE <<LB>> \o DumpItems(obj, 1) \o <<WS, RB>>

\* the same list written without indentation (a file some other tool wrote)
CompactItems(obj) ==
    [i \in 1..(2 * Len(obj) - 1) |-> IF i % 2 = 1 THEN Obj(obj[(i + 1) \div 2]) ELSE COMMA]
json_compact(obj) ==
    IF obj = <<>> THEN <<LB, RB>>
    ELSE <<LB>> \o CompactItems(obj) \o <<RB>>

IsWS(k) == k.t = "ws"
NotWS(k) == ~IsWS(k)
StripWS(text) == SelectSeq(text, NotWS)

WellFormedItems(inner) ==
    \/ inner = <<>>
    \/ /\ Len(inner) % 2 = 1
       /\ \A i \in 1..Len(inner) :
            IF i % 2 = 1 THEN inner[i].t = "obj" ELSE inner[i].t = ","

\* json.load(fp) followed by the use of the result as a list:
\* ok is FALSE where json.load raises JSONDecodeError
json_load(text) ==
    LET s == StripWS(text)
        n == Len(s)
    IN  IF n >= 2 /\ s[1].t = "[" /\ s[n].t = "]" /\ WellFormedItems(SubSeq(s, 2, n - 1))
        THEN [ok |-> TRUE,
              val |-> [i \in 1..((n - 1) \div 2) |-> s[2 * i].v]]
        ELSE [ok |-> FALSE, val |-> <<>>]

(* --------------------------- pure helpers ------------------------------ *)
\* mutation: only the site is compared, not the "/script" path
startswith_site_only(s, p) ==
    /\ Len(s) >= 1
    /\ s[1] = p[1]

\* str.startswith
startswith(s, p) ==
    /\ Len(s) >= Len(p)
    /\ SubSeq(s, 1, Len(p)) = p

\* mutation: the None check is lost
is_none_never(x, none) == FALSE

\* `if url is None`, `if web_driver is None`
is_none(x, none) == x = none

\* mutation: `if session_id is not None:`
truthy_not_none(s) == s # None

\* `if session_id:`
truthy(s) == s # None /\ s # ""

\* mutation: only the None checks are made
valid_pine_info_none_only(name, id) ==
    /\ name # None
    /\ id # None

valid_pine_info(name, id) ==
    /\ name # None
    /\ id # None
    /\ name # ""
    /\ id # ""

\* mutation: name and id are swapped in the record
make_entry_swapped(name, u, id) == [name |-> id, url |-> u, id |-> name]

make_entry(name, u, id) == [name |-> name, url |-> u, id |-> id]

\* mutation: data.insert(0, new_entry)
data_insert_first(d, e) == <<e>> \o d

\* data.append(new_entry)
data_append(d, e) == Append(d, e)

\* mutation: mode="a", the content is kept and the dump lands after it
open_a(content) == content

\* open(file=INDICATORS_FILE, mode="w"): the content the file has once opened
open_w(content) == <<>>

InTrace(e) == \E i \in 1..Len(trace) : trace[i] = e
Pos(e) == CHOOSE i \in 1..Len(trace) : trace[i] = e
Count(e) == Cardinality({ i \in 1..Len(trace) : trace[i] = e })

(* ------------------------------- Init ---------------------------------- *)
Init ==
    /\ pc = "idle"
    /\ url = UnsetUrl
    /\ cb_driver = Unset
    /\ web_driver = Unset
    /\ session_id = Unset
    /\ pine_name = None
    /\ pine_id = None
    /\ new_entry = NoEntry
    /\ data = <<>>
    /\ L0 \in ListsUpTo(MaxInit)
    /\ file \in {json_dump(L0), json_compact(L0)}
    /\ file_at_start = file
    /\ read_data = <<>>
    /\ location = BLANK
    /\ cookies = {}
    /\ trace = <<>>
    /\ timed_out = {}
    /\ runs = 0
    /\ ext_writes = 0
    /\ ext_since_read = FALSE

(* ------------------------- add_indicator ------------------------------- *)
\* ask_for_url(): the dialog returns entered_url.get(), always a str;
\* add_indicator returns only `if url is None`
ask_for_url ==
    /\ pc = "idle"
    /\ runs < MaxRuns
    /\ \E text \in EnteredTexts :
         /\ url' = text
         /\ pc' = IF is_none(text, NoneUrl) THEN "done" ELSE "create_browser"
    /\ file_at_start' = file
    /\ UNCHANGED <<cb_driver, web_driver, session_id, pine_name, pine_id, new_entry,
                   data, file, location, cookies, trace, timed_out, runs, L0,
                   read_data, ext_writes, ext_since_read>>

\* create_browser, first half: TradingviewLogin.create_selenium_webdriver(headless=True);
\* on None the error box is shown and None is returned
create_selenium_webdriver ==
    /\ pc = "create_browser"
    /\ \E d \in {None, "driver"} :
         /\ cb_driver' = d
         /\ IF d = None
            THEN /\ trace' = trace \o <<"create_selenium_webdriver", "showerror">>
                 /\ web_driver' = None
                 /\ pc' = "driver_check"
            ELSE /\ trace' = Append(trace, "create_selenium_webdriver")
                 /\ web_driver' = web_driver
                 /\ pc' = "read_session"
    /\ location' = BLANK
    /\ cookies' = {}
    /\ UNCHANGED <<url, session_id, pine_name, pine_id, new_entry, data, file,
                   timed_out, runs, L0, file_at_start, read_data, ext_writes,
                   ext_since_read>>

\* session_id = self.tradingview_login.read_saved_session_id()
read_saved_session_id ==
    /\ pc = "read_session"
    /\ \E s \in SavedSessions : session_id' = s
    /\ pc' = "get_published"
    /\ UNCHANGED <<url, cb_driver, web_driver, pine_name, pine_id, new_entry, data,
                   file, location, cookies, trace, timed_out, runs, L0,
                   file_at_start, read_data, ext_writes, ext_since_read>>

\* web_driver.get(url="https://www.tradingview.com/u/#published-scripts")
get_published_scripts ==
    /\ pc = "get_published"
    /\ location' = PUBLISHED_SCRIPTS
    /\ trace' = Append(trace, "get_published")
    /\ pc' = "add_cookie"
    /\ UNCHANGED <<url, cb_driver, web_driver, session_id, pine_name, pine_id,
                   new_entry, data, file, cookies, timed_out, runs, L0,
                   file_at_start, read_data, ext_writes, ext_since_read>>

\* `if session_id: web_driver.add_cookie(...)`, then `return web_driver`
add_cookie_and_return ==
    /\ pc = "add_cookie"
    /\ IF truthy(session_id)
       THEN /\ cookies' = cookies \cup {[name |-> "sessionid", value |-> session_id,
                                         domain |-> ".tradingview.com", path |-> "/"]}
            /\ trace' = Append(trace, "add_cookie")
       ELSE /\ cookies' = cookies
            /\ trace' = trace
    /\ web_driver' = cb_driver
    /\ pc' = "driver_check"
    /\ UNCHANGED <<url, cb_driver, session_id, pine_name, pine_id, new_entry, data,
                   file, location, timed_out, runs, L0, file_at_start, read_data,
                   ext_writes, ext_since_read>>

\* `if web_driver is None: return`, then valid_url = url.startswith(...)
check_driver_and_url ==
    /\ pc = "driver_check"
    /\ pc' = IF is_none(web_driver, None) THEN "done"
             ELSE IF startswith(url, PREFIX) THEN "gp_get"
             ELSE "done"
    /\ UNCHANGED <<url, cb_driver, web_driver, session_id, pine_name, pine_id,
                   new_entry, data, file, location, cookies, trace, timed_out, runs,
                   L0, file_at_start, read_data, ext_writes, ext_since_read>>

(* -------------------------- get_pine_info ------------------------------ *)
\* web_driver.get(url=url)
get_url ==
    /\ pc = "gp_get"
    /\ location' = url
    /\ trace' = Append(trace, "get_url")
    /\ pc' = "gp_name"
    /\ UNCHANGED <<url, cb_driver, web_driver, session_id, pine_name, pine_id,
                   new_entry, data, file, cookies, timed_out, runs, L0,
                   file_at_start, read_data, ext_writes, ext_since_read>>

\* mutation: the TimeoutException of the name wait is not caught inside
\* get_pine_name but around both waits, so the id wait is skipped
get_pine_name_abort_on_timeout ==
    /\ pc = "gp_name"
    /\ \/ /\ pine_name' = None
          /\ timed_out' = timed_out \cup {"name"}
          /\ trace' = trace \o <<"wait_name", "log:Unable to find pine name">>
          /\ pc' = "check_info"
       \/ /\ \E text \in NameTexts : pine_name' = text
          /\ timed_out' = timed_out
          /\ trace' = Append(trace, "wait_name")
          /\ pc' = "gp_id"
    /\ UNCHANGED <<url, cb_driver, web_driver, session_id, pine_id, new_entry, data,
                   file, location, cookies, runs, L0, file_at_start, read_data,
                   ext_writes, ext_since_read>>

\* pine_name = get_pine_name(): WebDriverWait(..., timeout=5).until(clickable);
\* TimeoutException is caught, logged, and None returned
get_pine_name ==
    /\ pc = "gp_name"
    /\ \/ /\ pine_name' = None
          /\ timed_out' = timed_out \cup {"name"}
          /\ trace' = trace \o <<"wait_name", "log:Unable to find pine name">>
       \/ /\ \E text \in NameTexts : pine_name' = text
          /\ timed_out' = timed_out
          /\ trace' = Append(trace, "wait_name")
    /\ pc' = "gp_id"
    /\ UNCHANGED <<url, cb_driver, web_driver, session_id, pine_id, new_entry, data,
                   file, location, cookies, runs, L0, file_at_start, read_data,
                   ext_writes, ext_since_read>>

\* pine_id = get_pine_id(), then `return pine_name, pine_id`
get_pine_id ==
    /\ pc = "gp_id"
    /\ \/ /\ pine_id' = None
          /\ timed_out' = timed_out \cup {"id"}
          /\ trace' = trace \o <<"wait_id", "log:Unable to find pine ID">>
       \/ /\ \E attr \in IdAttributes : pine_id' = attr
          /\ timed_out' = timed_out
          /\ trace' = Append(trace, "wait_id")
    /\ pc' = "check_info"
    /\ UNCHANGED <<url, cb_driver, web_driver, session_id, pine_name, new_entry, data,
                   file, location, cookies, runs, L0, file_at_start, read_data,
                   ext_writes, ext_since_read>>

\* valid_pine_info, and the construction of new_entry
check_pine_info ==
    /\ pc = "check_info"
    /\ IF valid_pine_info(pine_name, pine_id)
       THEN /\ new_entry' = make_entry(pine_name, url, pine_id)
            /\ pc' = "uj_read"
       ELSE /\ new_entry' = new_entry
            /\ pc' = "done"
    /\ UNCHANGED <<url, cb_driver, web_driver, session_id, pine_name, pine_id, data,
                   file, location, cookies, trace, timed_out, runs, L0,
                   file_at_start, read_data, ext_writes, ext_since_read>>

(* ------------------------- update_json_list ---------------------------- *)
\* with open(mode="r"): data = json.load(fp); JSONDecodeError propagates
read_list_file ==
    /\ pc = "uj_read"
    /\ LET r == json_load(file)
       IN  IF r.ok
           THEN /\ data' = r.val
                /\ read_data' = r.val
                /\ trace' = Append(trace, "file_read")
                /\ pc' = "uj_append"
           ELSE /\ data' = data
                /\ read_data' = read_data
                /\ trace' = trace \o <<"file_read", "JSONDecodeError">>
                /\ pc' = "raised"
    /\ ext_since_read' = FALSE
    /\ UNCHANGED <<url, cb_driver, web_driver, session_id, pine_name, pine_id,
                   new_entry, file, location, cookies, timed_out, runs, L0,
                   file_at_start, ext_writes>>

\* data.append(new_entry)
append_entry ==
    /\ pc = "uj_append"
    /\ data' = data_append(data, new_entry)
    /\ pc' = "uj_open_w"
    /\ UNCHANGED <<url, cb_driver, web_driver, session_id, pine_name, pine_id,
                   new_entry, file, location, cookies, trace, timed_out, runs, L0,
                   file_at_start, read_data, ext_writes, ext_since_read>>

\* with open(mode="w"): the file is truncated when it is opened
open_list_file_w ==
    /\ pc = "uj_open_w"
    /\ file' = open_w(file)
    /\ pc' = "uj_dump"
    /\ UNCHANGED <<url, cb_driver, web_driver, session_id, pine_name, pine_id,
                   new_entry, data, location, cookies, trace, timed_out, runs, L0,
                   file_at_start, read_data, ext_writes, ext_since_read>>

\* json.dump(obj=data, fp=file, indent=4) and the close of the file
dump_list_file ==
    /\ pc = "uj_dump"
    /\ file' = file \o json_dump(data)
    /\ trace' = Append(trace, "file_write")
    /\ pc' = "done"
    /\ UNCHANGED <<url, cb_driver, web_driver, session_id, pine_name, pine_id,
                   new_entry, data, location, cookies, timed_out, runs, L0,
                   file_at_start, read_data, ext_writes, ext_since_read>>

\* a write of json.dump fails (OSError): the chunks written so far stay in the
\* file and the exception propagates out of add_indicator
dump_list_file_fault ==
    /\ pc = "uj_dump"
    /\ \E k \in 0..(Len(json_dump(data)) - 1) :
         file' = file \o SubSeq(json_dump(data), 1, k)
    /\ trace' = Append(trace, "OSError")
    /\ pc' = "raised"
    /\ UNCHANGED <<url, cb_driver, web_driver, session_id, pine_name, pine_id,
                   new_entry, data, location, cookies, timed_out, runs, L0,
                   file_at_start, read_data, ext_writes, ext_since_read>>

\* add_indicator is over (returned or raised into the event loop); the next
\* button press starts it again with fresh locals
return_to_mainloop ==
    /\ pc \in {"done", "raised"}
    /\ runs < MaxRuns
    /\ pc' = "idle"
    /\ runs' = runs + 1
    /\ url' = UnsetUrl
    /\ cb_driver' = Unset
    /\ web_driver' = Unset
    /\ session_id' = Unset
    /\ pine_name' = None
    /\ pine_id' = None
    /\ new_entry' = NoEntry
    /\ data' = <<>>
    /\ read_data' = <<>>
    /\ location' = BLANK
    /\ cookies' = {}
    /\ trace' = <<>>
    /\ timed_out' = {}
    /\ ext_since_read' = FALSE
    /\ file_at_start' = file
    /\ UNCHANGED <<file, L0, ext_writes>>

\* another program appends a record to the list file; the code takes no lock,
\* so this can happen while update_json_list is between its read and its write
external_write ==
    /\ ext_writes < MaxExt
    /\ pc \in {"uj_read", "uj_append", "uj_open_w"}
    /\ json_load(file).ok
    /\ file' = json_dump(Append(json_load(file).val, ExtEntry))
    /\ ext_writes' = ext_writes + 1
    /\ ext_since_read' = (pc # "uj_read")
    /\ UNCHANGED <<pc, url, cb_driver, web_driver, session_id, pine_name, pine_id,
                   new_entry, data, location, cookies, trace, timed_out, runs, L0,
                   file_at_start, read_data>>

Next ==
    \/ ask_for_url
    \/ create_selenium_webdriver
    \/ read_saved_session_id
    \/ get_published_scripts
    \/ add_cookie_and_return
    \/ check_driver_and_url
    \/ get_url
    \/ get_pine_name
    \/ get_pine_id
    \/ check_pine_info
    \/ read_list_file
    \/ append_entry
    \/ open_list_file_w
    \/ dump_list_file
    \/ dump_list_file_fault
    \/ return_to_mainloop

Spec == Init /\ [][Next]_vars

NextExt == Next \/ external_write

SpecExt == Init /\ [][NextExt]_vars

TypeOK ==
    /\ pc \in {"idle", "create_browser", "read_session", "get_published", "add_cookie",
               "driver_check", "gp_get", "gp_name", "gp_id", "check_info", "uj_read",
               "uj_append", "uj_open_w", "uj_dump", "done", "raised"}
    /\ runs \in 0..MaxRuns

(* ============================ properties =============================== *)
HasRequiredPrefix(u) == Len(u) >= 2 /\ u[1] = SITE /\ u[2] = "/script"
Entered == url # UnsetUrl
Absent(x) == x = None \/ x = ""
IsPrefixOf(a, b) == Len(a) <= Len(b) /\ \A i \in 1..Len(a) : b[i] = a[i]
NoScrape ==
    /\ ~InTrace("get_url")
    /\ ~InTrace("wait_name")
    /\ ~InTrace("wait_id")
NoFileAccess ==
    /\ ~InTrace("file_read")
    /\ ~InTrace("file_write")
    /\ file = file_at_start

\* C1: a completed update_json_list(r) on a file holding the JSON array L leaves
\* the file holding L followed by r: one entry more, the prior entries unchanged
\* and in order.
C1_AppendsExactlyOne ==
    (pc = "done" /\ InTrace("file_write")) =>
        LET before == json_load(file_at_start)
            after == json_load(file)
        IN  /\ before.ok
            /\ after.ok
            /\ Len(after.val) = Len(before.val) + 1
            /\ \A i \in 1..Len(before.val) : after.val[i] = before.val[i]
            /\ after.val[Len(after.val)] = new_entry

C1_Witness ==
    /\ pc = "done"
    /\ InTrace("file_write")
    /\ file_at_start = json_compact(<<OldEntry>>)
    /\ json_load(file).val = <<OldEntry, new_entry>>

C3_EmptyTextIsNoOp ==
    (url = <<>>) =>
        /\ ~InTrace("create_selenium_webdriver")
        /\ ~InTrace("showerror")
        /\ ~InTrace("get_published")
        /\ NoScrape
        /\ NoFileAccess

\* C4: if the scraped name or id is absent or the empty string,
\* update_json_list is not called and the list file is unchanged; a record is
\* built only when both are present and non-empty.
C4_NoRecordWithoutNameAndId ==
    /\ (Absent(pine_name) \/ Absent(pine_id)) =>
            /\ new_entry = NoEntry
            /\ NoFileAccess
            /\ pc \notin {"uj_read", "uj_append", "uj_open_w", "uj_dump", "raised"}
    /\ (new_entry # NoEntry) => (~Absent(pine_name) /\ ~Absent(pine_id))

C4_Witness ==
    /\ pc = "done"
    /\ "name" \in timed_out
    /\ pine_name = None
    /\ pine_id = ""
    /\ InTrace("wait_id")

\* C5: with a URL that has the required prefix, a created browser and a scrape
\* that gives a non-empty name n and id i, add_indicator appends exactly the
\* record {name: n, url: the submitted URL, id: i} and writes the file once.
C5_AppendsScrapedRecord ==
    ( /\ pc \in {"done", "raised"}
      /\ Entered
      /\ HasRequiredPrefix(url)
      /\ web_driver = "driver"
      /\ ~Absent(pine_name)
      /\ ~Absent(pine_id)
      /\ json_load(file_at_start).ok
      /\ ~InTrace("OSError") ) =>
        /\ pc = "done"
        /\ json_load(file).ok
        /\ json_load(file).val =
             Append(json_load(file_at_start).val,
                    [name |-> pine_name, url |-> url, id |-> pine_id])
        /\ Count("file_write") = 1

C5_Witness ==
    /\ pc = "done"
    /\ file_at_start = <<LB, RB>>
    /\ url = <<SITE, "/script", "/abc123">>
    /\ json_load(file).val =
         << [name |-> "RSI Pro", url |-> <<SITE, "/script", "/abc123">>, id |-> "PUB;xyz"] >>

\* C6: when the login collaborator returns no driver, create_browser shows the
\* error dialog and returns None, and add_indicator navigates nowhere, injects
\* no cookie, waits for no element and leaves the list file unchanged.
C6_NoDriverNoWork ==
    (InTrace("create_selenium_webdriver") /\ cb_driver = None) =>
        /\ InTrace("showerror")
        /\ web_driver = None
        /\ ~InTrace("get_published")
        /\ ~InTrace("add_cookie")
        /\ NoScrape
        /\ NoFileAccess
        /\ location = BLANK
        /\ cookies = {}
        /\ pc \in {"driver_check", "done"}

C6_Witness ==
    /\ pc = "done"
    /\ cb_driver = None
    /\ HasRequiredPrefix(url)
    /\ trace = <<"create_selenium_webdriver", "showerror">>

\* C7: in every reachable state, faults inside update_json_list included, the
\* list file holds a single JSON array of which the initial list L0 is a prefix.
C7_FileAlwaysArrayExtendingL0 ==
    /\ json_load(file).ok
    /\ IsPrefixOf(L0, json_load(file).val)

\* C8: get_pine_info navigates, then runs the name wait, then the id wait; a
\* timeout of one wait does not stop the other, a timed-out field is None with
\* its error logged, the other field keeps its value, and a pair is returned.
C8_WaitsAreIsolated ==
    /\ (pc = "gp_id") => (InTrace("wait_name") /\ ~InTrace("wait_id"))
    /\ (InTrace("get_url") /\ pc \notin {"gp_name", "gp_id"}) =>
        /\ InTrace("wait_name")
        /\ InTrace("wait_id")
        /\ Pos("get_url") < Pos("wait_name")
        /\ Pos("wait_name") < Pos("wait_id")
        /\ ("name" \in timed_out) =>
              (pine_name = None /\ InTrace("log:Unable to find pine name"))
        /\ ("id" \in timed_out) =>
              (pine_id = None /\ InTrace("log:Unable to find pine ID"))
        /\ ("name" \notin timed_out) =>
              (pine_name \in NameTexts /\ ~InTrace("log:Unable to find pine name"))
        /\ ("id" \notin timed_out) =>
              (pine_id \in IdAttributes /\ ~InTrace("log:Unable to find pine ID"))
        /\ (pc = "raised") => InTrace("file_read")

C8_Witness ==
    /\ pc = "done"
    /\ timed_out = {"name"}
    /\ pine_id = "PUB;xyz"
    /\ Pos("log:Unable to find pine name") < Pos("wait_id")

\* C9: when the driver is created, create_browser navigates to the
\* published-scripts URL and returns the driver; the sessionid cookie is added
\* iff the saved session id is non-empty, and only after that navigation.
C9_CookieIffToken ==
    /\ (cb_driver = "driver" /\ pc \notin {"read_session", "get_published", "add_cookie"}) =>
        /\ web_driver = "driver"
        /\ InTrace("get_published")
        /\ InTrace("add_cookie") <=> (session_id # None /\ session_id # "")
        /\ InTrace("add_cookie") => Pos("get_published") < Pos("add_cookie")
        /\ cookies = IF session_id # None /\ session_id # ""
                     THEN {[name |-> "sessionid", value |-> session_id,
                            domain |-> ".tradingview.com", path |-> "/"]}
                     ELSE {}
    /\ (~InTrace("get_published")) => (cookies = {} /\ ~InTrace("add_cookie"))

C9_Witness ==
    /\ pc = "driver_check"
    /\ web_driver = "driver"
    /\ session_id = "tok123"
    /\ trace = <<"create_selenium_webdriver", "get_published", "add_cookie">>

\* C10: when another writer changes the list file after update_json_list has
\* read it and before it writes, the write leaves the file holding the list
\* that was read plus the new record: the other writer's change is gone.
C10_LostUpdate ==
    (pc = "done" /\ InTrace("file_write") /\ ext_since_read) =>
        /\ json_load(file).ok
        /\ json_load(file).val = Append(read_data, new_entry)
        /\ Len(json_load(file).val) = Len(read_data) + 1

C10_Witness ==
    /\ pc = "done"
    /\ InTrace("file_write")
    /\ ext_since_read
    /\ ext_writes = 1
    /\ \A i \in 1..Len(json_load(file).val) : json_load(file).val[i] # ExtEntry

====
